---- MODULE Spec2Model ----
(***************************************************************************)
(* Stripe webhook reconciliation: the webhook view (views.py), the credit  *)
(* allocation helpers (credit.py) and the three local tables               *)
(* (api/models.py), as a state machine of request workers whose steps are  *)
(* the database operations of the handlers.                                *)
(***************************************************************************)
EXTENDS Integers, Sequences, FiniteSets, TLC

\* ------------------------------------------------------------------ bounds
\* deliveries (webhook requests or direct allocation calls) accepted in a run
MaxEvents == 3
\* period-end instants reported by the provider: 1..MaxPeriod
MaxPeriod == 2
\* words in the name of a plan
MaxWords == 2
MaxMetaLen == 3

\* ------------------------------------------------------------ value spaces
Workers == {"w1", "w2"}
SubIds == {"sub_1"}
NoId == "none"
KnownCustomer == "cus_1"
UnknownCustomer == "cus_x"
TheUser == "u1"
PriceA == "price_A"
PriceB == "price_B"
PriceC == "price_C"
PriceIds == {PriceA, PriceB, PriceC}
Periods == 1..MaxPeriod

\* api/models.py STATUS_CHOICES
STATUS_CHOICES ==
  {"active", "past_due", "unpaid", "canceled", "incomplete",
   "incomplete_expired", "trialing"}

\* an absent StripeSubscription row (objects.get raises DoesNotExist)
NoSub ==
  [present |-> FALSE, user |-> NoId, status |-> "none", plan_id |-> NoId,
   current_period_start |-> 0, current_period_end |-> 0,
   cancel_at_period_end |-> FALSE, updated_at |-> 0]
\* an absent StripePlan row
NoPlan ==
  [present |-> FALSE, name |-> <<>>, initial_credits |-> 0,
   monthly_credits |-> 0]

\* ------------------------------------------------ strings as character rows
\* str.lower() of one character: the capitals of ASCII and of Latin-1 (the
\* capitals beyond Latin-1 cannot be written in a string here)
Chr_lower(c) ==
  CASE c = "A" -> "a" [] c = "B" -> "b" [] c = "C" -> "c" [] c = "D" -> "d"
    [] c = "E" -> "e" [] c = "F" -> "f" [] c = "G" -> "g" [] c = "H" -> "h"
    [] c = "I" -> "i" [] c = "J" -> "j" [] c = "K" -> "k" [] c = "L" -> "l"
    [] c = "M" -> "m" [] c = "N" -> "n" [] c = "O" -> "o" [] c = "P" -> "p"
    [] c = "Q" -> "q" [] c = "R" -> "r" [] c = "S" -> "s" [] c = "T" -> "t"
    [] c = "U" -> "u" [] c = "V" -> "v" [] c = "W" -> "w" [] c = "X" -> "x"
    [] c = "Y" -> "y" [] c = "Z" -> "z"
    [] c = "À" -> "à" [] c = "Á" -> "á" [] c = "Â" -> "â" [] c = "Ã" -> "ã"
    [] c = "Ä" -> "ä" [] c = "Å" -> "å" [] c = "Æ" -> "æ" [] c = "Ç" -> "ç"
    [] c = "È" -> "è" [] c = "É" -> "é" [] c = "Ê" -> "ê" [] c = "Ë" -> "ë"
    [] c = "Ì" -> "ì" [] c = "Í" -> "í" [] c = "Î" -> "î" [] c = "Ï" -> "ï"
    [] c = "Ð" -> "ð" [] c = "Ñ" -> "ñ" [] c = "Ò" -> "ò" [] c = "Ó" -> "ó"
    [] c = "Ô" -> "ô" [] c = "Õ" -> "õ" [] c = "Ö" -> "ö" [] c = "Ø" -> "ø"
    [] c = "Ù" -> "ù" [] c = "Ú" -> "ú" [] c = "Û" -> "û" [] c = "Ü" -> "ü"
    [] c = "Ý" -> "ý" [] c = "Þ" -> "þ"
    [] OTHER -> c

\* str.lower()
lower(s) == [i \in 1..Len(s) |-> Chr_lower(s[i])]

\* `k in s` for strings: k occurs in s as a contiguous run
contains(s, k) ==
  \E i \in 1..(Len(s) + 1) :
    /\ i + Len(k) - 1 <= Len(s)
    /\ SubSeq(s, i, i + Len(k) - 1) = k

\* the keys of the mapping of map_plan_to_subscription_tier, in insertion order
TierKeys ==
  << <<"F","r","e","e"," ","P","l","a","n">>,
     <<"B","a","s","i","c"," ","P","l","a","n">>,
     <<"P","r","e","m","i","u","m"," ","P","l","a","n">>,
     <<"E","n","t","e","r","p","r","i","s","e"," ","P","l","a","n">> >>
TierValues == <<"free", "basic", "premium", "enterprise">>

\* key.lower().split()[0] of each key
TierFirstWords ==
  << <<"f","r","e","e">>,
     <<"b","a","s","i","c">>,
     <<"p","r","e","m","i","u","m">>,
     <<"e","n","t","e","r","p","r","i","s","e">> >>

\* faulty variant of map_plan_to_subscription_tier: no default after the loop
map_plan_to_subscription_tier_no_default(plan_name) ==
  IF \E i \in 1..4 : TierKeys[i] = plan_name
  THEN TierValues[CHOOSE i \in 1..4 : TierKeys[i] = plan_name]
  ELSE IF \E i \in 1..4 : contains(lower(plan_name), TierFirstWords[i])
  THEN TierValues[CHOOSE i \in 1..4 :
                    /\ contains(lower(plan_name), TierFirstWords[i])
                    /\ \A j \in 1..(i - 1) :
                         ~contains(lower(plan_name), TierFirstWords[j])]
  ELSE "None"

\* credit.py map_plan_to_subscription_tier
map_plan_to_subscription_tier(plan_name) ==
  IF \E i \in 1..4 : TierKeys[i] = plan_name
  THEN TierValues[CHOOSE i \in 1..4 : TierKeys[i] = plan_name]
  ELSE IF \E i \in 1..4 : contains(lower(plan_name), TierFirstWords[i])
  THEN TierValues[CHOOSE i \in 1..4 :
                    /\ contains(lower(plan_name), TierFirstWords[i])
                    /\ \A j \in 1..(i - 1) :
                         ~contains(lower(plan_name), TierFirstWords[j])]
  ELSE "basic"

\* ------------------------------------------------------ the provider's data
\* A metadata value as the provider returns it: the key is absent, or its
\* value is a string
MetaMissing == [present |-> FALSE, chars |-> <<>>]
MetaStr(chars) == [present |-> TRUE, chars |-> chars]

DigitChars == <<"0", "1", "2", "3", "4", "5", "6", "7", "8", "9">>
IsDigit(c) == \E d \in 1..10 : DigitChars[d] = c
DigitValue(c) == (CHOOSE d \in 1..10 : DigitChars[d] = c) - 1

\* a value that is no numeral, and the numeral of a one-digit number
MetaText == MetaStr(<<"n", "/", "a">>)
MetaNum(n) == MetaStr(<<DigitChars[n + 1]>>)

\* the whitespace characters int() drops around a numeral: tab, line feed,
\* vertical tab, form feed, carriage return and the space, and of the rest
\* of Latin-1 U+0085 and the no-break space U+00A0. The separators
\* U+001C..U+001F, which str.strip() drops, int() keeps and then refuses.
\* The whitespace beyond Latin-1 (U+1680, U+2000..U+200A, U+2028, U+2029,
\* U+202F, U+205F, U+3000) cannot be written in a string here
VT == ""
Whitespace == {" ", "\t", "\n", "\r", "\f", VT, "", " "}

\* the stripping int() applies: the string without the whitespace around it
RECURSIVE lstrip(_)
lstrip(s) == IF s # <<>> /\ s[1] \in Whitespace THEN lstrip(Tail(s)) ELSE s
RECURSIVE rstrip(_)
rstrip(s) ==
  IF s # <<>> /\ s[Len(s)] \in Whitespace
  THEN rstrip(SubSeq(s, 1, Len(s) - 1))
  ELSE s
strip(s) == rstrip(lstrip(s))

\* the number written by a row of decimal digits
RECURSIVE digits_value(_)
digits_value(s) ==
  IF s = <<>> THEN 0
  ELSE 10 * digits_value(SubSeq(s, 1, Len(s) - 1)) + DigitValue(s[Len(s)])

\* the digits int() accepts after the sign: at least one decimal digit, with
\* single underscores allowed between two digits
is_digit_row(u) ==
  /\ u # <<>>
  /\ IsDigit(u[1])
  /\ IsDigit(u[Len(u)])
  /\ \A i \in 1..Len(u) : IsDigit(u[i]) \/ u[i] = "_"
  /\ \A i \in 1..(Len(u) - 1) : ~(u[i] = "_" /\ u[i + 1] = "_")

\* the digits of a row, its underscores dropped
RECURSIVE only_digits(_)
only_digits(u) ==
  IF u = <<>> THEN <<>>
  ELSE IF u[1] = "_" THEN only_digits(Tail(u))
  ELSE <<u[1]>> \o only_digits(Tail(u))

\* faulty variant of py_int: a sign in front of the digits is not accepted
py_int_unsigned(chars) ==
  LET t == strip(chars)
  IN  IF is_digit_row(t)
      THEN [ok |-> TRUE, val |-> digits_value(only_digits(t))]
      ELSE [ok |-> FALSE, val |-> 0]

\* int(str): whitespace around is dropped, then an optional sign and a row
\* of decimal digits; anything else is a ValueError (ok is FALSE). Latin-1
\* has no decimal digits but 0..9; the digits of other scripts, which int()
\* also reads, cannot be written in a string here
py_int(chars) ==
  LET t == strip(chars)
      signed == t # <<>> /\ t[1] \in {"+", "-"}
      u == IF signed THEN Tail(t) ELSE t
  IN  IF is_digit_row(u)
      THEN [ok |-> TRUE,
            val |-> IF signed /\ t[1] = "-"
                    THEN 0 - digits_value(only_digits(u))
                    ELSE digits_value(only_digits(u))]
      ELSE [ok |-> FALSE, val |-> 0]

\* the product the provider holds for each price id before any management
\* request (stripe.Price.retrieve / stripe.Product.retrieve)
ProviderProduct(p) ==
  CASE p = PriceA ->
         [name |-> <<"B","a","s","i","c"," ","P","l","a","n">>,
          initial_credits |-> MetaNum(1), monthly_credits |-> MetaNum(1)]
    [] p = PriceB ->
         [name |-> <<"P","r","e","m","i","u","m"," ","M","o","n","t","h","l","y">>,
          initial_credits |-> MetaNum(3), monthly_credits |-> MetaNum(2)]
    [] OTHER ->
         [name |-> <<"S","t","a","r","t","e","r">>,
          initial_credits |-> MetaNum(1), monthly_credits |-> MetaText]

\* no product retrieved
NoProduct ==
  [name |-> <<>>, initial_credits |-> MetaMissing,
   monthly_credits |-> MetaMissing]

\* int(metadata.get(key, 0)) inside try/except (ValueError, TypeError): the
\* default 0 for an absent key, 0 for a value int() refuses
credits_of(value) ==
  IF ~value.present THEN 0
  ELSE IF py_int(value.chars).ok THEN py_int(value.chars).val
  ELSE 0

\* views.py _get_initial_credits
get_initial_credits(product) == credits_of(product.initial_credits)

\* views.py _get_monthly_credits
get_monthly_credits(product) == credits_of(product.monthly_credits)

\* the StripePlan row created from a retrieved product
PlanFromProduct(product) ==
  [present |-> TRUE,
   name |-> product.name,
   initial_credits |-> get_initial_credits(product),
   monthly_credits |-> get_monthly_credits(product)]

\* the StripePlan row created from the provider's price and product
HydratedPlan(p) == PlanFromProduct(ProviderProduct(p))

\* ------------------------------------------------------------------- state
VARIABLES
  customers,   \* StripeCustomer rows: the customer ids linked to the user
  plans,       \* StripePlan rows by plan_id (unique)
  subs,        \* StripeSubscription rows by subscription_id (unique)
  hasProfile,  \* whether the user has a UserProfile
  products,    \* the provider's product of each price id
  balance,     \* UserProfile.credits_balance
  tier,        \* UserProfile.subscription_tier
  ledger,      \* CreditTransaction rows, in insertion order
  lock,        \* holder of the row lock on the profile (select_for_update)
  pc,          \* per worker: position in the request it is serving
  ev,          \* per worker: the event or call being served
  loc,         \* per worker: local variables of the running handler
  delivered    \* number of deliveries accepted so far

vars ==
  <<customers, plans, subs, hasProfile, products, balance, tier, ledger, lock,
    pc, ev, loc, delivered>>

data == <<customers, plans, subs, hasProfile, products, balance, tier, ledger>>

\* an inbound request: a webhook event with the fields of its embedded object
\* (for checkout.session.completed also what stripe.Subscription.retrieve
\* returns for session.subscription), or a direct allocation call
NoEvent ==
  [type |-> "none", sig |-> "ok", payload |-> "ok", id |-> NoId, invoice |-> NoId,
   customer |-> NoId, ref |-> NoId, status |-> "none", price |-> NoId,
   period_start |-> 0, period_end |-> 0,
   cancel |-> FALSE, billing_reason |-> "none", amount |-> 0,
   reason |-> "none"]

\* snap: the StripeSubscription object the handler read; created: the flag of
\* update_or_create; cont: where the handler resumes after resolving the plan;
\* amount, reason, old_balance, ret, result: arguments, local and return value
\* of allocate_subscription_credits; ncalls: allocation calls made so far by
\* this request; exc: the exception that ended the handler; resp, error: the
\* status and the error text of the HTTP response
NoLoc ==
  [snap |-> NoSub, created |-> FALSE, cont |-> "none", amount |-> 0,
   reason |-> "none", old_balance |-> 0, ret |-> "none", result |-> FALSE,
   ncalls |-> 0, exc |-> "none", resp |-> "none", error |-> "none",
   product |-> NoProduct]

Init ==
  /\ customers = {KnownCustomer}
  /\ plans = [p \in PriceIds |-> NoPlan]
  /\ subs = [s \in SubIds |-> NoSub]
  /\ hasProfile = TRUE
  /\ products = [p \in PriceIds |-> ProviderProduct(p)]
  /\ balance = 0
  /\ tier = "free"
  /\ ledger = <<>>
  /\ lock = NoId
  /\ pc = [w \in Workers |-> "idle"]
  /\ ev = [w \in Workers |-> NoEvent]
  /\ loc = [w \in Workers |-> NoLoc]
  /\ delivered = 0

\* ------------------------------------------- credit.py: credit allocation
\* UserProfile.add_credits belongs to apps.users, whose sources are not part
\* of this app; it is taken from section 4.2 of the specification: an amount
\* that is negative and would drive the balance below zero is refused
\* (rejected, not clamped), by raising
add_credits_refuses(bal, amount) == amount < 0 /\ bal + amount < 0

\* UserProfile.add_credits, section 4.2 and credit.py:45-48, 75: the balance
\* after an amount that is not refused
add_credits(bal, amount) == bal + amount

\* the locals of a handler as it calls allocate_subscription_credits(user,
\* amount, description, subscription_id), to resume at `ret` on return
Calling(l, amount, reason, ret) ==
  [l EXCEPT !.amount = amount, !.reason = reason, !.ret = ret,
            !.ncalls = @ + 1, !.result = FALSE]

\* faulty variant of profile_missing: the profile is assumed to exist
profile_missing_ignored(profile) == FALSE

\* credit.py:23: not hasattr(user, 'profile')
profile_missing(profile) == ~profile

\* credit.py:23-33: the profile check
allocate_enter(w) ==
  /\ pc[w] = "alloc_enter"
  /\ IF profile_missing(hasProfile)
     THEN /\ pc' = [pc EXCEPT ![w] = loc[w].ret]
          /\ loc' = [loc EXCEPT ![w].result = FALSE]
     ELSE /\ pc' = [pc EXCEPT ![w] = "alloc_lock"]
          /\ UNCHANGED loc
  /\ UNCHANGED <<data, lock, ev, delivered>>

\* faulty variant of LockFree: the balance is read without waiting for the
\* row lock
LockIgnored(w) == TRUE

\* whether the row lock on the profile can be taken
LockFree(w) == lock = NoId

\* credit.py:36-39: transaction.atomic() opens, select_for_update().get()
\* takes the row lock and reads the balance
allocate_lock(w) ==
  /\ pc[w] = "alloc_lock"
  /\ LockFree(w)
  /\ lock' = w
  /\ loc' = [loc EXCEPT ![w].old_balance = balance]
  /\ pc' = [pc EXCEPT ![w] = "alloc_add"]
  /\ UNCHANGED <<data, ev, delivered>>

\* faulty variant of raised_in_atomic: the exception is swallowed and the
\* function goes on to record the transaction
raised_in_atomic_goes_on(l) == "alloc_record"

\* credit.py:36, 81-85: where the function continues after an exception
\* raised inside the atomic block: the handler around the whole body catches
\* it and returns to the caller
raised_in_atomic(l) == l.ret

\* credit.py:45-48: add_credits, save, and the commit that releases the lock;
\* when add_credits raises, the atomic block rolls back, the lock is released
\* and the handler at credit.py:81-85 returns False
allocate_add(w) ==
  /\ pc[w] = "alloc_add"
  /\ lock' = NoId
  /\ IF add_credits_refuses(loc[w].old_balance, loc[w].amount)
     THEN /\ pc' = [pc EXCEPT ![w] = raised_in_atomic(loc[w])]
          /\ loc' = [loc EXCEPT ![w].result = FALSE]
          /\ UNCHANGED balance
     ELSE /\ balance' = add_credits(loc[w].old_balance, loc[w].amount)
          /\ pc' = [pc EXCEPT ![w] = "alloc_record"]
          /\ UNCHANGED loc
  /\ UNCHANGED <<customers, plans, subs, hasProfile, products, tier, ledger, ev,
                 delivered>>

\* the CreditTransaction row of credit.py:55-63
CreditTransaction(w) ==
  [amount |-> loc[w].amount,
   balance_after |-> loc[w].old_balance + loc[w].amount,
   reason |-> loc[w].reason,
   sub |-> ev[w].id]

\* credit.py:51-66: CreditTransaction.objects.create succeeds
allocate_record(w) ==
  /\ pc[w] = "alloc_record"
  /\ ledger' = Append(ledger, CreditTransaction(w))
  /\ pc' = [pc EXCEPT ![w] = "alloc_verify"]
  /\ UNCHANGED <<customers, plans, subs, hasProfile, products, balance, tier, lock, ev,
                 loc, delivered>>

\* credit.py:52, 67-68: apps.credits.models cannot be imported; the
\* ImportError is logged, no row is recorded and the verification follows
allocate_record_skipped(w) ==
  /\ pc[w] = "alloc_record"
  /\ pc' = [pc EXCEPT ![w] = "alloc_verify"]
  /\ UNCHANGED <<data, lock, ev, loc, delivered>>

\* credit.py:55-63 raising (a database error), caught at credit.py:81-85
allocate_record_fails(w) ==
  /\ pc[w] = "alloc_record"
  /\ pc' = [pc EXCEPT ![w] = loc[w].ret]
  /\ loc' = [loc EXCEPT ![w].result = FALSE]
  /\ UNCHANGED <<data, lock, ev, delivered>>

\* credit.py:70-79: re-read the balance and compare
allocate_verify(w) ==
  /\ pc[w] = "alloc_verify"
  /\ pc' = [pc EXCEPT ![w] = loc[w].ret]
  /\ loc' = [loc EXCEPT ![w].result = (balance = loc[w].old_balance + loc[w].amount)]
  /\ UNCHANGED <<data, lock, ev, delivered>>

\* the steps of allocate_subscription_credits
allocate_subscription_credits(w) ==
  \/ allocate_enter(w)
  \/ allocate_lock(w)
  \/ allocate_add(w)
  \/ allocate_record(w)
  \/ allocate_verify(w)

\* ------------------------------------- direct use of the allocation function
Amounts == {-2, 1, 3}
Reasons == {"initial", "adjustment"}

Calls ==
  { [NoEvent EXCEPT !.type = "allocate", !.id = s, !.amount = a, !.reason = r] :
      s \in SubIds, a \in Amounts, r \in Reasons }

\* a caller starts allocate_subscription_credits(user, amount, description, id)
Call(w, c) ==
  /\ pc[w] = "idle"
  /\ delivered < MaxEvents
  /\ delivered' = delivered + 1
  /\ ev' = [ev EXCEPT ![w] = c]
  /\ pc' = [pc EXCEPT ![w] = "alloc_enter"]
  /\ loc' = [loc EXCEPT ![w] = [NoLoc EXCEPT !.amount = c.amount,
                                             !.reason = c.reason,
                                             !.ret = "returned",
                                             !.ncalls = 1]]
  /\ UNCHANGED <<data, lock>>

\* the call has returned; the worker is free again
Return(w) ==
  /\ pc[w] = "returned"
  /\ pc' = [pc EXCEPT ![w] = "idle"]
  /\ ev' = [ev EXCEPT ![w] = NoEvent]
  /\ loc' = [loc EXCEPT ![w] = NoLoc]
  /\ UNCHANGED <<data, lock, delivered>>

NextLedger ==
  \E w \in Workers :
    \/ \E c \in Calls : Call(w, c)
    \/ allocate_subscription_credits(w)
    \/ allocate_record_fails(w)
    \/ allocate_record_skipped(w)
    \/ Return(w)

\* concurrent callers of the allocation function, with ledger-write failures
SpecLedger == Init /\ [][NextLedger]_vars

\* ------------------------------------------------- views.py: the webhook view
\* the handler has finished (or its exception was caught): the response
Finished(l, resp) == [l EXCEPT !.resp = resp]

\* datetime.datetime.fromtimestamp(ts, tz=utc): the instant of a provider
\* timestamp; instants are counted in the provider's own units
fromtimestamp(ts) == ts

\* faulty variant of SubscriptionRow: get_or_create, which leaves a stored
\* row as it is
SubscriptionRow_get_or_create(old, e) ==
  IF old.present THEN old
  ELSE [present |-> TRUE,
        user |-> TheUser,
        status |-> e.status,
        plan_id |-> e.price,
        current_period_start |-> fromtimestamp(e.period_start),
        current_period_end |-> e.period_end,
        cancel_at_period_end |-> e.cancel,
        updated_at |-> 1]

\* the defaults of update_or_create (views.py:519-530, 587-598) applied to the
\* row `old` (NoSub on insert); auto_now advances updated_at on every save
SubscriptionRow(old, e) ==
  [present |-> TRUE,
   user |-> TheUser,
   status |-> e.status,
   plan_id |-> e.price,
   current_period_start |-> fromtimestamp(e.period_start),
   current_period_end |-> fromtimestamp(e.period_end),
   cancel_at_period_end |-> e.cancel,
   updated_at |-> old.updated_at + 1]

\* faulty variant of verify: the payload is parsed before the header is looked
\* for
verify_payload_first(e) ==
  IF e.payload = "malformed" \/ e.sig = "invalid" THEN "construct_event"
  ELSE IF e.sig = "missing" THEN "No signature header"
  ELSE "ok"

\* views.py:396-414: the request is rejected without its signature header
\* before the payload is looked at; stripe.Webhook.construct_event raises on a
\* payload that does not parse and on a signature that does not match, and
\* the error of the response is the text of that exception
verify(e) ==
  IF e.sig = "missing" THEN "No signature header"
  ELSE IF e.payload = "malformed" \/ e.sig = "invalid" THEN "construct_event"
  ELSE "ok"

\* the rejection of an unverified request (views.py:400, 409, 413)
Rejected(l, error) == [l EXCEPT !.resp = "400", !.error = error]

\* the except clauses that end a handler (views.py:547, 612, 682-685, 712,
\* 744, 771): only _handle_subscription_updated lets an exception out, and
\* only CustomerNotFoundException
handler_raises(handler, exc) ==
  handler = "updated" /\ exc = "CustomerNotFoundException"

\* faulty variant of response_of: an error of a handler is reported to the
\* sender
response_of_reported(handler, exc) ==
  IF exc = "none" THEN "success"
  ELSE IF exc = "CustomerNotFoundException" THEN "404"
  ELSE "500"

\* views.py:420-432 and 453-462: the response to an event whose handler ended
\* with exception exc ("none": it returned); what the handler logs itself is
\* acknowledged, handle_event lets CustomerNotFoundException through to post
\* and acknowledges every other exception
response_of(handler, exc) ==
  IF exc = "none" \/ ~handler_raises(handler, exc) THEN "success"
  ELSE IF exc = "CustomerNotFoundException" THEN "404"
  ELSE "success"

\* the handler ended with exception exc
Raised(l, handler, exc) ==
  [l EXCEPT !.exc = exc, !.resp = response_of(handler, exc)]

\* the handler whose try block encloses the plan resolution that resumes at
\* cont (views.py:497-516, 565-584, 645-663)
handler_of(cont) ==
  CASE cont = "created_upsert" -> "created"
    [] cont = "checkout_upsert" -> "checkout"
    [] OTHER -> "updated"

\* views.py:436-449: the event types that have a handler
HandledTypes ==
  {"customer.subscription.created", "customer.subscription.updated",
   "customer.subscription.deleted", "invoice.payment_succeeded",
   "invoice.payment_failed", "checkout.session.completed",
   "customer.updated", "payment_intent.succeeded",
   "payment_intent.payment_failed", "charge.refunded",
   "charge.dispute.created", "radar.early_fraud_warning.created"}

\* faulty variant of handlers: a type without a handler gets a logging one
handlers_default ==
  [t \in HandledTypes \cup {"some.unknown.event"} |->
     CASE t = "customer.subscription.created" -> "created_customer"
       [] t = "customer.subscription.updated" -> "updated_customer"
       [] t = "customer.subscription.deleted" -> "deleted_get"
       [] t = "invoice.payment_succeeded" -> "invoice_paid"
       [] t = "invoice.payment_failed" -> "invoice_failed_get"
       [] t = "checkout.session.completed" -> "checkout_begin"
       [] OTHER -> "log_only"]

\* views.py:434-449: the static mapping from event type to handler, as the
\* first position of each handler; the six handlers that only log respond
\* at once
handlers ==
  [t \in HandledTypes |->
     CASE t = "customer.subscription.created" -> "created_customer"
       [] t = "customer.subscription.updated" -> "updated_customer"
       [] t = "customer.subscription.deleted" -> "deleted_get"
       [] t = "invoice.payment_succeeded" -> "invoice_paid"
       [] t = "invoice.payment_failed" -> "invoice_failed_get"
       [] t = "checkout.session.completed" -> "checkout_begin"
       [] OTHER -> "log_only"]

\* views.py:393-426 and 434-464: post verifies the request and handle_event
\* picks the handler
post(w, e) ==
  /\ pc[w] = "idle"
  /\ delivered < MaxEvents
  /\ delivered' = delivered + 1
  /\ ev' = [ev EXCEPT ![w] = e]
  /\ IF verify(e) # "ok"
     THEN /\ pc' = [pc EXCEPT ![w] = "respond"]
          /\ loc' = [loc EXCEPT ![w] = Rejected(NoLoc, verify(e))]
     ELSE IF e.type \notin DOMAIN handlers
     THEN /\ pc' = [pc EXCEPT ![w] = "respond"]
          /\ loc' = [loc EXCEPT ![w] = Finished(NoLoc, "ignored")]
     ELSE IF handlers[e.type] = "log_only"
     THEN /\ pc' = [pc EXCEPT ![w] = "respond"]
          /\ loc' = [loc EXCEPT ![w] = Finished(NoLoc, "success")]
     ELSE /\ pc' = [pc EXCEPT ![w] = handlers[e.type]]
          /\ loc' = [loc EXCEPT ![w] = NoLoc]
  /\ UNCHANGED <<data, lock>>

\* the response is sent; the worker is free for the next request
respond(w) ==
  /\ pc[w] = "respond"
  /\ pc' = [pc EXCEPT ![w] = "idle"]
  /\ ev' = [ev EXCEPT ![w] = NoEvent]
  /\ loc' = [loc EXCEPT ![w] = NoLoc]
  /\ UNCHANGED <<data, lock, delivered>>

\* ---- get-or-create of the plan (views.py:497-516, 565-584, 645-663)
\* faulty variant of plan_exists: no stored row is ever found for a plan_id,
\* so every event hydrates the plan again and writes it over the stored row
plan_exists_never(rows, p) == FALSE

\* a StripePlan row with this plan_id is stored: objects.get(plan_id=...)
\* returns it, and the unique plan_id refuses a second row
plan_exists(rows, p) == rows[p].present

\* StripePlan.objects.get(plan_id=...): found, or DoesNotExist
plan_get(w) ==
  /\ pc[w] = "plan_get"
  /\ pc' = [pc EXCEPT ![w] =
              IF plan_exists(plans, ev[w].price) THEN loc[w].cont
              ELSE "plan_create"]
  /\ UNCHANGED <<data, lock, ev, loc, delivered>>

\* stripe.Price.retrieve, stripe.Product.retrieve, StripePlan.objects.create;
\* plan_id is unique, so creating a row that another request has created
\* meanwhile raises, and the handler's `except Exception` ends the handler
plan_create_from(w, stripe_product) ==
  /\ pc[w] = "plan_create"
  /\ IF plan_exists(plans, ev[w].price)
     THEN /\ pc' = [pc EXCEPT ![w] = "respond"]
          /\ loc' = [loc EXCEPT ![w] =
                       Raised([@ EXCEPT !.product = stripe_product],
                              handler_of(@.cont), "IntegrityError")]
          /\ UNCHANGED plans
     ELSE /\ plans' = [plans EXCEPT ![ev[w].price] =
                                     PlanFromProduct(stripe_product)]
          /\ pc' = [pc EXCEPT ![w] = loc[w].cont]
          /\ loc' = [loc EXCEPT ![w].product = stripe_product]
  /\ UNCHANGED <<customers, subs, hasProfile, products, balance, tier, ledger, lock, ev,
                 delivered>>

\* the plan is created from the provider's product of the event's price
plan_create(w) == plan_create_from(w, products[ev[w].price])

\* ---- _handle_subscription_created
\* views.py:552-563: the customer lookup; CustomerNotFoundException is raised
\* inside the try whose `except Exception` (612-613) logs it
handle_subscription_created_customer(w) ==
  /\ pc[w] = "created_customer"
  /\ IF ev[w].customer \notin customers
     THEN /\ pc' = [pc EXCEPT ![w] = "respond"]
          /\ loc' = [loc EXCEPT ![w] =
                       Raised(@, "created", "CustomerNotFoundException")]
     ELSE /\ pc' = [pc EXCEPT ![w] = "plan_get"]
          /\ loc' = [loc EXCEPT ![w].cont = "created_upsert"]
  /\ UNCHANGED <<data, lock, ev, delivered>>

\* faulty variant of created_allocates: the flag of update_or_create inverted
created_allocates_existing(created, status) == ~created /\ status = "active"

\* views.py:601: whether the created handler allocates the initial credits
created_allocates(created, status) == created /\ status = "active"

\* views.py:586-603: update_or_create of the subscription, then the initial
\* credits
handle_subscription_created_upsert(w) ==
  /\ pc[w] = "created_upsert"
  /\ LET e == ev[w]
         created == ~subs[e.id].present
         l == [loc[w] EXCEPT !.created = created]
     IN /\ subs' = [subs EXCEPT ![e.id] = SubscriptionRow(@, e)]
        /\ IF created_allocates(created, e.status)
           THEN /\ pc' = [pc EXCEPT ![w] = "alloc_enter"]
                /\ loc' = [loc EXCEPT ![w] =
                             Calling(l, plans[e.price].initial_credits,
                                     "initial", "created_tier")]
           ELSE /\ pc' = [pc EXCEPT ![w] = "created_tier"]
                /\ loc' = [loc EXCEPT ![w] = l]
  /\ UNCHANGED <<customers, plans, hasProfile, products, balance, tier, ledger, lock,
                 ev, delivered>>

\* views.py:605-610: the tier of the profile follows the plan
handle_subscription_created_tier(w) ==
  /\ pc[w] = "created_tier"
  /\ tier' = IF hasProfile
             THEN map_plan_to_subscription_tier(plans[ev[w].price].name)
             ELSE tier
  /\ pc' = [pc EXCEPT ![w] = "respond"]
  /\ loc' = [loc EXCEPT ![w] = Finished(@, "success")]
  /\ UNCHANGED <<customers, plans, subs, hasProfile, products, balance, ledger, lock,
                 ev, delivered>>

handle_subscription_created(w) ==
  \/ handle_subscription_created_customer(w)
  \/ handle_subscription_created_upsert(w)
  \/ handle_subscription_created_tier(w)

\* ---- _handle_subscription_updated
\* views.py:617-624: the customer lookup; CustomerNotFoundException is
\* re-raised (682-684) and post answers 404
handle_subscription_updated_customer(w) ==
  /\ pc[w] = "updated_customer"
  /\ IF ev[w].customer \notin customers
     THEN /\ pc' = [pc EXCEPT ![w] = "respond"]
          /\ loc' = [loc EXCEPT ![w] =
                       Raised(@, "updated", "CustomerNotFoundException")]
     ELSE /\ pc' = [pc EXCEPT ![w] = "updated_get"]
          /\ UNCHANGED loc
  /\ UNCHANGED <<data, lock, ev, delivered>>

\* views.py:626-641: read the stored subscription; a missing one is handed
\* to _handle_subscription_created; a changed plan goes to the plan change
handle_subscription_updated_get(w) ==
  /\ pc[w] = "updated_get"
  /\ LET sub == subs[ev[w].id] IN
       IF ~sub.present
       THEN /\ pc' = [pc EXCEPT ![w] = "created_customer"]
            /\ UNCHANGED loc
       ELSE /\ loc' = [loc EXCEPT ![w].snap = sub]
            /\ pc' = [pc EXCEPT ![w] =
                        IF sub.plan_id # ev[w].price
                        THEN "updated_old_plan" ELSE "updated_save"]
  /\ UNCHANGED <<data, lock, ev, delivered>>

\* views.py:642-663, 668-669: the old plan must be known locally, else the
\* plan change is skipped; then the new plan is got or created
handle_subscription_updated_old_plan(w) ==
  /\ pc[w] = "updated_old_plan"
  /\ IF plans[loc[w].snap.plan_id].present
     THEN /\ pc' = [pc EXCEPT ![w] = "plan_get"]
          /\ loc' = [loc EXCEPT ![w].cont = "change"]
     ELSE /\ pc' = [pc EXCEPT ![w] = "updated_save"]
          /\ UNCHANGED loc
  /\ UNCHANGED <<data, lock, ev, delivered>>

\* faulty variant of credit_adjustment: the new plan's whole grant, not the
\* difference
credit_adjustment_whole(old_plan, new_plan) == new_plan.initial_credits

\* credit.py:132: the credits a plan change grants at once
credit_adjustment(old_plan, new_plan) ==
  new_plan.initial_credits - old_plan.initial_credits

\* faulty variant of is_upgrade: a downgrade is allocated too, as a reduction
is_change(adj) == adj # 0

\* credit.py:134-144: only a positive difference is allocated
is_upgrade(adj) == adj > 0

\* credit.py:131-144 (called at views.py:666): allocate the difference of the
\* initial credits on an upgrade only
handle_subscription_change(w) ==
  /\ pc[w] = "change"
  /\ LET adj == credit_adjustment(plans[loc[w].snap.plan_id],
                                  plans[ev[w].price])
     IN IF is_upgrade(adj)
        THEN /\ pc' = [pc EXCEPT ![w] = "alloc_enter"]
             /\ loc' = [loc EXCEPT ![w] =
                          Calling(@, adj, "upgrade", "change_tier")]
        ELSE /\ pc' = [pc EXCEPT ![w] = "change_tier"]
             /\ loc' = [loc EXCEPT ![w].result = TRUE]
  /\ UNCHANGED <<data, lock, ev, delivered>>

\* credit.py:146-152: the tier follows the new plan if the allocation
\* succeeded
handle_subscription_change_tier(w) ==
  /\ pc[w] = "change_tier"
  /\ tier' = IF loc[w].result /\ hasProfile
             THEN map_plan_to_subscription_tier(plans[ev[w].price].name)
             ELSE tier
  /\ pc' = [pc EXCEPT ![w] = "updated_save"]
  /\ UNCHANGED <<customers, plans, subs, hasProfile, products, balance, ledger, lock,
                 ev, loc, delivered>>

\* faulty variant of UpdatedRow: the plan of the row is left as it was read
UpdatedRow_keeps_plan(snap, e, now) ==
  [snap EXCEPT
     !.status = e.status,
     !.current_period_start = fromtimestamp(e.period_start),
     !.current_period_end = fromtimestamp(e.period_end),
     !.cancel_at_period_end = e.cancel,
     !.updated_at = now]

\* views.py:671-678: the object read at 628 with the event's status, plan,
\* period and cancel flag
UpdatedRow(snap, e, now) ==
  [snap EXCEPT
     !.status = e.status,
     !.plan_id = e.price,
     !.current_period_start = fromtimestamp(e.period_start),
     !.current_period_end = fromtimestamp(e.period_end),
     !.cancel_at_period_end = e.cancel,
     !.updated_at = now]

\* views.py:671-680: the object read at 628 gets the event's status, plan,
\* period and cancel flag and is saved whole
handle_subscription_updated_save(w) ==
  /\ pc[w] = "updated_save"
  /\ LET e == ev[w] IN
       subs' = [subs EXCEPT ![e.id] =
                  UpdatedRow(loc[w].snap, e, subs[e.id].updated_at + 1)]
  /\ pc' = [pc EXCEPT ![w] = "respond"]
  /\ loc' = [loc EXCEPT ![w] = Finished(@, "success")]
  /\ UNCHANGED <<customers, plans, hasProfile, products, balance, tier, ledger, lock,
                 ev, delivered>>

handle_subscription_updated(w) ==
  \/ handle_subscription_updated_customer(w)
  \/ handle_subscription_updated_get(w)
  \/ handle_subscription_updated_old_plan(w)
  \/ handle_subscription_change(w)
  \/ handle_subscription_change_tier(w)
  \/ handle_subscription_updated_save(w)

\* ---- _handle_subscription_deleted
\* views.py:690-697: read the stored subscription
handle_subscription_deleted_get(w) ==
  /\ pc[w] = "deleted_get"
  /\ LET sub == subs[ev[w].id] IN
       IF ~sub.present
       THEN /\ pc' = [pc EXCEPT ![w] = "respond"]
            /\ loc' = [loc EXCEPT ![w] = Finished(@, "success")]
       ELSE /\ pc' = [pc EXCEPT ![w] = "deleted_save"]
            /\ loc' = [loc EXCEPT ![w].snap = sub]
  /\ UNCHANGED <<data, lock, ev, delivered>>

\* views.py:699-702: the object read gets the event's status and is saved
\* whole
handle_subscription_deleted_save(w) ==
  /\ pc[w] = "deleted_save"
  /\ subs' = [subs EXCEPT ![ev[w].id] =
                [loc[w].snap EXCEPT
                   !.status = ev[w].status,
                   !.updated_at = subs[ev[w].id].updated_at + 1]]
  /\ pc' = [pc EXCEPT ![w] = "deleted_tier"]
  /\ UNCHANGED <<customers, plans, hasProfile, products, balance, tier, ledger, lock,
                 ev, loc, delivered>>

\* views.py:704-710: the profile falls back to the free tier
handle_subscription_deleted_tier(w) ==
  /\ pc[w] = "deleted_tier"
  /\ tier' = IF hasProfile THEN "free" ELSE tier
  /\ pc' = [pc EXCEPT ![w] = "respond"]
  /\ loc' = [loc EXCEPT ![w] = Finished(@, "success")]
  /\ UNCHANGED <<customers, plans, subs, hasProfile, products, balance, ledger, lock,
                 ev, delivered>>

handle_subscription_deleted(w) ==
  \/ handle_subscription_deleted_get(w)
  \/ handle_subscription_deleted_save(w)
  \/ handle_subscription_deleted_tier(w)

\* ---- _handle_invoice_payment_succeeded
\* faulty variant of recurring_grant: the grant of a new subscription
recurring_grant_initial(plan) == plan.initial_credits

\* views.py:738-740: the credits a paid invoice grants
recurring_grant(plan) == plan.monthly_credits

\* views.py:717-728: StripeSubscription.objects.get for invoice.subscription;
\* the handler returns for a one-off invoice and when no row is stored
handle_invoice_payment_succeeded_get(w) ==
  /\ pc[w] = "invoice_paid"
  /\ LET sub == IF ev[w].id \in SubIds THEN subs[ev[w].id] ELSE NoSub
     IN /\ pc' = [pc EXCEPT ![w] =
                    IF sub.present THEN "invoice_paid_plan" ELSE "respond"]
        /\ loc' = [loc EXCEPT ![w] =
                     IF sub.present THEN [@ EXCEPT !.snap = sub]
                     ELSE Finished([@ EXCEPT !.snap = sub], "success")]
  /\ UNCHANGED <<data, lock, ev, delivered>>

\* views.py:730-741: StripePlan.objects.get for the plan_id the subscription
\* held when it was read, and the allocation of the plan's monthly credits
handle_invoice_payment_succeeded_plan(w) ==
  /\ pc[w] = "invoice_paid_plan"
  /\ LET plan == IF loc[w].snap.plan_id \in PriceIds
                 THEN plans[loc[w].snap.plan_id] ELSE NoPlan
     IN IF plan.present /\ recurring_grant(plan) > 0
        THEN /\ pc' = [pc EXCEPT ![w] = "alloc_enter"]
             /\ loc' = [loc EXCEPT ![w] =
                          Calling(Finished(@, "success"),
                                  recurring_grant(plan), "recurring",
                                  "respond")]
        ELSE /\ pc' = [pc EXCEPT ![w] = "respond"]
             /\ loc' = [loc EXCEPT ![w] = Finished(@, "success")]
  /\ UNCHANGED <<data, lock, ev, delivered>>

handle_invoice_payment_succeeded(w) ==
  \/ handle_invoice_payment_succeeded_get(w)
  \/ handle_invoice_payment_succeeded_plan(w)

\* ---- _handle_invoice_payment_failed
\* views.py:747-760: find the subscription
handle_invoice_payment_failed_get(w) ==
  /\ pc[w] = "invoice_failed_get"
  /\ LET sub == IF ev[w].id \in SubIds THEN subs[ev[w].id] ELSE NoSub IN
       IF ~sub.present
       THEN /\ pc' = [pc EXCEPT ![w] = "respond"]
            /\ loc' = [loc EXCEPT ![w] = Finished(@, "success")]
       ELSE /\ pc' = [pc EXCEPT ![w] = "invoice_failed_save"]
            /\ loc' = [loc EXCEPT ![w].snap = sub]
  /\ UNCHANGED <<data, lock, ev, delivered>>

\* views.py:762-769: the status becomes past_due unless it equals the
\* invoice's billing_reason; save(update_fields=['status']) writes the status
\* column only
handle_invoice_payment_failed_save(w) ==
  /\ pc[w] = "invoice_failed_save"
  /\ subs' = IF loc[w].snap.status # ev[w].billing_reason
             THEN [subs EXCEPT ![ev[w].id].status = "past_due"]
             ELSE subs
  /\ pc' = [pc EXCEPT ![w] = "respond"]
  /\ loc' = [loc EXCEPT ![w] = Finished(@, "success")]
  /\ UNCHANGED <<customers, plans, hasProfile, products, balance, tier, ledger, lock,
                 ev, delivered>>

handle_invoice_payment_failed(w) ==
  \/ handle_invoice_payment_failed_get(w)
  \/ handle_invoice_payment_failed_save(w)

\* ---- _handle_checkout_session_completed
\* views.py:466-495: a session without subscription or client_reference_id,
\* or of an unknown user, is only logged; else the user's StripeCustomer row
\* is created or pointed at session.customer and the subscription is retrieved
handle_checkout_session_completed_begin(w) ==
  /\ pc[w] = "checkout_begin"
  /\ IF ev[w].id = NoId \/ ev[w].ref # TheUser
     THEN /\ pc' = [pc EXCEPT ![w] = "respond"]
          /\ loc' = [loc EXCEPT ![w] = Finished(@, "success")]
          /\ UNCHANGED customers
     ELSE /\ customers' = {ev[w].customer}
          /\ pc' = [pc EXCEPT ![w] = "plan_get"]
          /\ loc' = [loc EXCEPT ![w].cont = "checkout_upsert"]
  /\ UNCHANGED <<plans, subs, hasProfile, products, balance, tier, ledger, lock, ev,
                 delivered>>

\* views.py:533: whether the checkout handler allocates the initial credits;
\* `status` is the status just stored
checkout_allocates(created, status) == created \/ status # "active"

\* views.py:518-536: update_or_create of the subscription, then the initial
\* credits
handle_checkout_session_completed_upsert(w) ==
  /\ pc[w] = "checkout_upsert"
  /\ LET e == ev[w]
         created == ~subs[e.id].present
         l == [loc[w] EXCEPT !.created = created]
     IN /\ subs' = [subs EXCEPT ![e.id] = SubscriptionRow(@, e)]
        /\ IF checkout_allocates(created, e.status)
           THEN /\ pc' = [pc EXCEPT ![w] = "alloc_enter"]
                /\ loc' = [loc EXCEPT ![w] =
                             Calling(l, plans[e.price].initial_credits,
                                     "initial", "checkout_tier")]
           ELSE /\ pc' = [pc EXCEPT ![w] = "checkout_tier"]
                /\ loc' = [loc EXCEPT ![w] = l]
  /\ UNCHANGED <<customers, plans, hasProfile, products, balance, tier, ledger, lock,
                 ev, delivered>>

\* views.py:538-543: the tier of the profile follows the plan
handle_checkout_session_completed_tier(w) ==
  /\ pc[w] = "checkout_tier"
  /\ tier' = IF hasProfile
             THEN map_plan_to_subscription_tier(plans[ev[w].price].name)
             ELSE tier
  /\ pc' = [pc EXCEPT ![w] = "respond"]
  /\ loc' = [loc EXCEPT ![w] = Finished(@, "success")]
  /\ UNCHANGED <<customers, plans, subs, hasProfile, products, balance, ledger, lock,
                 ev, delivered>>

handle_checkout_session_completed(w) ==
  \/ handle_checkout_session_completed_begin(w)
  \/ handle_checkout_session_completed_upsert(w)
  \/ handle_checkout_session_completed_tier(w)

\* views.py:451-455: the handler picked by handle_event runs
handle_event(w) ==
  \/ handle_subscription_created(w)
  \/ handle_subscription_updated(w)
  \/ handle_subscription_deleted(w)
  \/ handle_invoice_payment_succeeded(w)
  \/ handle_invoice_payment_failed(w)
  \/ handle_checkout_session_completed(w)
  \/ plan_get(w)
  \/ plan_create(w)
  \/ allocate_subscription_credits(w)

\* ------------------------------------------------------- the event stream
\* statuses the provider reports in the modelled deliveries
EventStatuses == {"incomplete", "active", "canceled"}

\* an event carrying a subscription object; the events delivered here carry
\* a period of one unit, current_period_start one before current_period_end
SubscriptionEvent(t, s, c, st, p, pe, ca) ==
  [NoEvent EXCEPT !.type = t, !.id = s, !.customer = c, !.ref = TheUser,
                  !.status = st, !.price = p, !.period_start = pe - 1,
                  !.period_end = pe, !.cancel = ca]

\* cancel_at_period_end is reported set only on active subscriptions
SubscriptionEvents(t) ==
  { e \in { SubscriptionEvent(t, s, KnownCustomer, st, p, pe, ca) :
              s \in SubIds, st \in EventStatuses, p \in PriceIds,
              pe \in Periods, ca \in BOOLEAN } :
      e.cancel => e.status = "active" }

DeletedEvents ==
  { [NoEvent EXCEPT !.type = "customer.subscription.deleted", !.id = s,
                    !.customer = KnownCustomer, !.status = "canceled"] :
      s \in SubIds }

\* one invoice: every delivery of an invoice event is a delivery of that
\* invoice's event (id is invoice.subscription, None for a one-off invoice)
InvoiceEvents ==
  { [NoEvent EXCEPT !.type = t, !.id = s, !.invoice = "in_1",
                    !.billing_reason = "subscription_cycle"] :
      t \in {"invoice.payment_succeeded", "invoice.payment_failed"},
      s \in SubIds \cup {NoId} }

OtherEvents ==
  { [NoEvent EXCEPT !.type = "customer.updated"],
    [NoEvent EXCEPT !.type = "some.unknown.event"],
    SubscriptionEvent("customer.subscription.created", "sub_1",
                      UnknownCustomer, "active", PriceA, 1, FALSE),
    SubscriptionEvent("customer.subscription.updated", "sub_1",
                      UnknownCustomer, "active", PriceA, 1, FALSE) }

\* requests that fail the verification of views.py:396-414, around a payload
\* that would create an active subscription: without the signature header,
\* with a signature that does not match, with a payload that does not parse
UnverifiedEvents ==
  LET e == SubscriptionEvent("customer.subscription.created", "sub_1",
                             KnownCustomer, "active", PriceA, 1, FALSE)
  IN { [e EXCEPT !.sig = "missing"],
       [e EXCEPT !.sig = "invalid"],
       [e EXCEPT !.payload = "malformed"],
       [e EXCEPT !.sig = "missing", !.payload = "malformed"] }

Events ==
  SubscriptionEvents("customer.subscription.created")
    \cup SubscriptionEvents("customer.subscription.updated")
    \cup SubscriptionEvents("checkout.session.completed")
    \cup DeletedEvents \cup InvoiceEvents \cup OtherEvents
    \cup UnverifiedEvents

\* requests are served one at a time
Sequential == {"w1"}

Next ==
  \E w \in Sequential :
    \/ \E e \in Events : post(w, e)
    \/ handle_event(w)
    \/ respond(w)

\* the webhook endpoint under at-least-once, out-of-order delivery
Spec == Init /\ [][Next]_vars

\* ------------------------------- concurrent deliveries of one plan upgrade
\* the state after customer.subscription.created (active, price_A, period 1)
\* has been served: the subscription is stored and its initial credits granted
InitSubscribed ==
  /\ customers = {KnownCustomer}
  /\ plans = [p \in PriceIds |-> IF p = PriceA THEN HydratedPlan(p) ELSE NoPlan]
  /\ subs = [s \in SubIds |->
               SubscriptionRow(NoSub,
                 SubscriptionEvent("customer.subscription.created", s,
                                   KnownCustomer, "active", PriceA, 1, FALSE))]
  /\ hasProfile = TRUE
  /\ products = [p \in PriceIds |-> ProviderProduct(p)]
  /\ balance = 1
  /\ tier = "basic"
  /\ ledger = << [amount |-> 1, balance_after |-> 1, reason |-> "initial",
                  sub |-> "sub_1"] >>
  /\ lock = NoId
  /\ pc = [w \in Workers |-> "idle"]
  /\ ev = [w \in Workers |-> NoEvent]
  /\ loc = [w \in Workers |-> NoLoc]
  /\ delivered = 1

\* the provider's event for the change of sub_1 to price_B
UpgradeEvents ==
  { SubscriptionEvent("customer.subscription.updated", "sub_1", KnownCustomer,
                      "active", PriceB, 1, FALSE) }

NextConcurrentUpdates ==
  \E w \in Workers :
    \/ \E e \in UpgradeEvents : post(w, e)
    \/ handle_subscription_updated(w)
    \/ plan_get(w)
    \/ plan_create(w)
    \/ allocate_subscription_credits(w)
    \/ respond(w)

\* two workers serve deliveries of the same upgrade event at once
SpecConcurrentUpdates == InitSubscribed /\ [][NextConcurrentUpdates]_vars

\* ------------------------------------------------------------ properties
RECURSIVE SumAmounts(_)
SumAmounts(l) == IF l = <<>> THEN 0 ELSE l[1].amount + SumAmounts(Tail(l))

\* the ledger entries with reason r for subscription s
Entries(r, s) ==
  { i \in 1..Len(ledger) : ledger[i].reason = r /\ ledger[i].sub = s }

\* C1: two calls of the allocation with the same account, amount, reason and
\* subscription id leave exactly one CreditTransaction: no two ledger entries
\* agree on amount, reason and subscription id.
C1_IdempotentAllocation ==
  \A i, j \in 1..Len(ledger) :
    ( /\ ledger[i].sub = ledger[j].sub
      /\ ledger[i].reason = ledger[j].reason
      /\ ledger[i].amount = ledger[j].amount ) => i = j

\* C2: whatever created / checkout / updated deliveries arrive for one
\* subscription id, the ledger holds at most one initial grant for it.
C2_InitialGrantAtMostOnce ==
  \A s \in SubIds : Cardinality(Entries("initial", s)) <= 1

\* C3: the deliveries of invoice.payment_succeeded all carry the one invoice
\* in_1, so they are redeliveries of one event: the ledger holds at most one
\* recurring allocation for its subscription.
C3_RecurringOncePerInvoice ==
  \A s \in SubIds : Cardinality(Entries("recurring", s)) <= 1

\* the request worker w has finished serving changed the stored subscription
\* from one plan to another while it stayed active
PlanChanged(w) ==
  /\ pc[w] = "respond"
  /\ ev[w].type = "customer.subscription.updated"
  /\ loc[w].snap.present
  /\ loc[w].snap.status = "active"
  /\ ev[w].status = "active"
  /\ loc[w].snap.plan_id # ev[w].price
  /\ subs[ev[w].id].plan_id = ev[w].price

\* C4: a customer.subscription.updated that moved an active subscription
\* from plan A to plan B made exactly one allocation, of B.initial_credits -
\* A.initial_credits with reason upgrade, if that difference is positive (the
\* handler called the allocation once, its entry is the last of the ledger
\* and the only one above the balance the allocation started from), and made
\* no allocation otherwise.
C4_UpgradeDeltaOnly ==
  \A w \in Workers :
    PlanChanged(w) =>
      LET delta == plans[ev[w].price].initial_credits
                     - plans[loc[w].snap.plan_id].initial_credits
      IN IF delta > 0
         THEN /\ loc[w].ncalls = 1
              /\ ledger # <<>>
              /\ ledger[Len(ledger)] =
                   [amount |-> delta, balance_after |-> balance,
                    reason |-> "upgrade", sub |-> ev[w].id]
              /\ Cardinality({ i \in 1..Len(ledger) :
                                 ledger[i].balance_after
                                   > loc[w].old_balance }) = 1
         ELSE loc[w].ncalls = 0

C4_Witness ==
  /\ PlanChanged("w1")
  /\ loc["w1"].snap.plan_id = PriceA
  /\ ev["w1"].price = PriceB
  /\ loc["w1"].ncalls = 1
  /\ loc["w1"].amount = 2

\* C5: deliveries of the same plan-A-to-plan-B upgrade served concurrently
\* leave what some serial order leaves: exactly one upgrade allocation.
C5_OneUpgradeAllocation ==
  \A s \in SubIds : Cardinality(Entries("upgrade", s)) <= 1

\* C6: once no allocation is in progress, the balance is the starting balance
\* (0) plus the sum of the recorded CreditTransaction amounts, also after an
\* attempt whose CreditTransaction write failed.
C6_AtomicAllocation ==
  (\A w \in Workers : pc[w] \in {"idle", "returned"}) =>
     balance = SumAmounts(ledger)

\* C7: the balance read-modify-write of an allocation runs under the row
\* lock, so every commit adds exactly its amount to the balance as it stands
\* then: no concurrent update is lost.
C7_NoLostUpdate ==
  [][ \A w \in Workers :
        (pc[w] = "alloc_add" /\ pc'[w] = "alloc_record") =>
           balance' = balance + loc[w].amount ]_vars

\* two allocations contend: one holds the lock, the other waits for it
C7_Witness ==
  /\ pc["w1"] = "alloc_add"
  /\ pc["w2"] = "alloc_lock"
  /\ lock = "w1"

\* the allocation worker w runs has read, under the lock, a balance that its
\* negative amount would drive below zero
DrivesBelowZero(w) ==
  /\ pc[w] \in {"alloc_add", "alloc_record", "alloc_verify"}
  /\ loc[w].old_balance + loc[w].amount < 0

\* the update worker w has finished serving is a stale duplicate: its
\* period-end is not after the stored one and its status is the stored one
StaleDuplicate(w) ==
  /\ pc[w] = "respond"
  /\ ev[w].type = "customer.subscription.updated"
  /\ loc[w].snap.present
  /\ ev[w].period_end <= loc[w].snap.current_period_end
  /\ ev[w].status = loc[w].snap.status

\* C9: a stale duplicate update changes no field of the stored subscription
\* and makes no ledger call.
C9_StaleDuplicateSkipped ==
  \A w \in Workers :
    StaleDuplicate(w) =>
      /\ subs[ev[w].id] = loc[w].snap
      /\ loc[w].ncalls = 0

\* C10: while a customer.subscription.created or .updated event reporting
\* active is served for a subscription stored as canceled, the stored status
\* stays canceled.
C10_CanceledStaysCanceled ==
  [][ \A w \in Workers :
        ( /\ ev[w].type \in {"customer.subscription.created",
                             "customer.subscription.updated"}
          /\ ev[w].status = "active"
          /\ ev[w].id \in SubIds
          /\ subs[ev[w].id].status = "canceled" ) =>
            subs'[ev[w].id].status = "canceled" ]_vars

\* C11: a verified event whose type has no handler is answered "ignored"
\* without entering a handler, and serving it changes no stored data
C11_UnknownTypeIgnored ==
  [][\A w \in Workers :
       /\ (ev'[w].type \notin HandledTypes \cup {"none", "allocate"}
              /\ verify(ev'[w]) = "ok")
            => /\ pc'[w] = "respond"
               /\ loc'[w].resp = "ignored"
               /\ loc'[w].ncalls = 0
               /\ data' = data
       /\ (ev[w].type \notin HandledTypes \cup {"none", "allocate"})
            => data' = data]_vars

C11_Witness ==
  /\ pc["w1"] = "respond"
  /\ ev["w1"].type = "some.unknown.event"
  /\ loc["w1"].resp = "ignored"
  /\ delivered > 1

\* a request without a matching signature over a payload that parses
Unverified(e) == e.sig # "ok" \/ e.payload # "ok"

\* C13: a request that fails the verification is answered 400, enters no
\* handler and changes no stored data; without the signature header the
\* answer does not depend on the payload
C13_UnverifiedRejected ==
  [][\A w \in Workers :
       /\ (ev'[w].type # "none" /\ Unverified(ev'[w]))
            => /\ pc'[w] = "respond"
               /\ loc'[w].resp = "400"
               /\ loc'[w].ncalls = 0
               /\ loc'[w].exc = "none"
               /\ data' = data
               /\ (ev'[w].sig = "missing"
                     => loc'[w].error = "No signature header")
       /\ (ev[w].type # "none" /\ Unverified(ev[w])) => data' = data]_vars

C13_Witness ==
  /\ pc["w1"] = "respond"
  /\ ev["w1"].sig = "missing"
  /\ ev["w1"].payload = "malformed"
  /\ loc["w1"].resp = "400"
  /\ delivered > 1
  /\ subs["sub_1"].present

\* ------------------------------------- two handlers resolving an unseen price
\* created events of one subscription on a price no request has seen yet
PlanRaceEvents ==
  { SubscriptionEvent("customer.subscription.created", "sub_1", KnownCustomer,
                      "active", PriceA, pe, FALSE) : pe \in Periods }

NextConcurrentPlans ==
  \E w \in Workers :
    \/ \E e \in PlanRaceEvents : post(w, e)
    \/ handle_subscription_created(w)
    \/ plan_get(w)
    \/ plan_create(w)
    \/ allocate_subscription_credits(w)
    \/ respond(w)

\* created events served by concurrent requests, no plan stored at first
SpecConcurrentPlans == Init /\ [][NextConcurrentPlans]_vars

\* C12: every handler that resolved the price of its event ends normally,
\* with the plan stored and its own subscription write made: no handler is
\* ended by the other's creation of the plan
C12_BothHandlersComplete ==
  \A w \in Workers :
    (pc[w] = "respond" /\ ev[w].type = "customer.subscription.created")
      => /\ plans[ev[w].price].present
         /\ loc[w].exc = "none"
         /\ subs[ev[w].id].present

\* C14: a verified customer.subscription.created or .updated event whose
\* customer has no local record is answered 404, neither success nor 500,
\* and its handler writes nothing
C14_UnknownCustomerNotFound ==
  \A w \in Workers :
    (/\ pc[w] = "respond"
     /\ ev[w].type \in {"customer.subscription.created",
                        "customer.subscription.updated"}
     /\ verify(ev[w]) = "ok"
     /\ ev[w].customer \notin customers)
      => loc[w].resp = "404" /\ loc[w].ncalls = 0

\* --------------------------------------------- handlers that end with an error
\* stripe.Price.retrieve or stripe.Product.retrieve raises while the plan is
\* hydrated (views.py:502-505, 570-573, 649-652); the enclosing handler logs it
plan_hydrate_fails(w) ==
  /\ pc[w] = "plan_create"
  /\ pc' = [pc EXCEPT ![w] = "respond"]
  /\ loc' = [loc EXCEPT ![w] = Raised(@, handler_of(@.cont), "StripeError")]
  /\ UNCHANGED <<data, lock, ev, delivered>>

\* the handler that writes the subscription at each position
SaveHandler ==
  [p \in {"created_upsert", "checkout_upsert", "updated_save", "deleted_save",
          "invoice_failed_save"} |->
     CASE p = "created_upsert" -> "created"
       [] p = "checkout_upsert" -> "checkout"
       [] p = "updated_save" -> "updated"
       [] p = "deleted_save" -> "deleted"
       [] OTHER -> "invoice_failed"]

\* the write of the subscription raises a database error (update_or_create
\* at views.py:587, save at 680, 705 and 768); nothing is written and the
\* handler logs the error
subscription_save_fails(w) ==
  /\ pc[w] \in DOMAIN SaveHandler
  /\ pc' = [pc EXCEPT ![w] = "respond"]
  /\ loc' = [loc EXCEPT ![w] = Raised(@, SaveHandler[pc[w]], "DatabaseError")]
  /\ UNCHANGED <<data, lock, ev, delivered>>

\* the events of the five handlers that write, without the cancel flag
FaultEvents ==
  { e \in SubscriptionEvents("customer.subscription.created")
            \cup SubscriptionEvents("customer.subscription.updated")
            \cup DeletedEvents \cup InvoiceEvents : ~e.cancel }

NextFaults ==
  \E w \in Sequential :
    \/ \E e \in FaultEvents : post(w, e)
    \/ handle_subscription_created(w)
    \/ handle_subscription_updated(w)
    \/ handle_subscription_deleted(w)
    \/ handle_invoice_payment_succeeded(w)
    \/ handle_invoice_payment_failed(w)
    \/ plan_get(w)
    \/ plan_create(w)
    \/ allocate_subscription_credits(w)
    \/ plan_hydrate_fails(w)
    \/ subscription_save_fails(w)
    \/ allocate_record_fails(w)
    \/ allocate_record_skipped(w)
    \/ respond(w)

\* the webhook endpoint when the provider, the subscription table or the
\* ledger table can fail
SpecFaults == Init /\ [][NextFaults]_vars

\* C15: when the handler of an event of a handled type ends with an error
\* other than customer-not-found, the response is success
C15_HandlerErrorAcknowledged ==
  \A w \in Workers :
    (/\ pc[w] = "respond"
     /\ ev[w].type \in HandledTypes
     /\ loc[w].exc \notin {"none", "CustomerNotFoundException"})
      => loc[w].resp = "success"

C15_Witness ==
  /\ pc["w1"] = "respond"
  /\ ev["w1"].type = "customer.subscription.updated"
  /\ loc["w1"].exc = "DatabaseError"
  /\ loc["w1"].resp = "success"
  /\ loc["w1"].ncalls = 1

\* C16: when a verified customer.subscription.created event of a known
\* customer has been processed, the response is success and the subscription
\* of that id is stored, owned by the customer's account, with the status,
\* plan, period and cancel flag of the event
C16_CreatedStored ==
  \A w \in Workers :
    (/\ pc[w] = "respond"
     /\ ev[w].type = "customer.subscription.created"
     /\ verify(ev[w]) = "ok"
     /\ ev[w].customer \in customers)
      => /\ loc[w].resp = "success"
         /\ LET sub == subs[ev[w].id] IN
              /\ sub.present
              /\ sub.user = TheUser
              /\ sub.status = ev[w].status
              /\ sub.plan_id = ev[w].price
              /\ plans[sub.plan_id].present
              /\ sub.current_period_start = ev[w].period_start
              /\ sub.current_period_end = ev[w].period_end
              /\ sub.cancel_at_period_end = ev[w].cancel

C16_Witness ==
  /\ pc["w1"] = "respond"
  /\ ev["w1"].type = "customer.subscription.created"
  /\ ev["w1"].status = "incomplete"
  /\ ev["w1"].price = PriceB
  /\ ~loc["w1"].created
  /\ subs["sub_1"].status = "incomplete"
  /\ subs["sub_1"].plan_id = PriceB
  /\ subs["sub_1"].updated_at = 2

\* C17: once no request is being served, every stored subscription that is
\* active on a plan with a positive initial grant has an initial-credit
\* ledger entry, however it became active
C17_ActivationGrantsInitial ==
  (\A w \in Workers : pc[w] = "idle")
    => \A s \in SubIds :
         (/\ subs[s].present
          /\ subs[s].status = "active"
          /\ plans[subs[s].plan_id].initial_credits > 0)
           => Entries("initial", s) # {}

\* the request worker w has finished serving moved a stored subscription to
\* canceled or incomplete_expired
MovedToCanceled(w) ==
  /\ pc[w] = "respond"
  /\ verify(ev[w]) = "ok"
  /\ loc[w].exc = "none"
  /\ \/ ev[w].type = "customer.subscription.deleted"
     \/ /\ ev[w].type = "customer.subscription.updated"
        /\ loc[w].snap.present
        /\ loc[w].snap.status \notin {"canceled", "incomplete_expired"}
  /\ ev[w].status \in {"canceled", "incomplete_expired"}
  /\ subs[ev[w].id].present
  /\ subs[ev[w].id].status = ev[w].status

\* C18: a request that moved a subscription to canceled or incomplete_expired
\* made no allocation and leaves the tier of the account at 'free'
C18_CancelNoLedgerFreeTier ==
  \A w \in Workers :
    MovedToCanceled(w) => loc[w].ncalls = 0 /\ tier = "free"

\* C19: only a request serving invoice.payment_succeeded allocates with the
\* recurring reason; once served, it has made one allocation of exactly the
\* monthly credits of the subscription's plan if they are positive, and none
\* otherwise
C19_RecurringOnlyOnInvoicePaid ==
  \A w \in Workers :
    /\ loc[w].reason = "recurring" => ev[w].type = "invoice.payment_succeeded"
    /\ (/\ pc[w] = "respond"
        /\ ev[w].type = "invoice.payment_succeeded"
        /\ verify(ev[w]) = "ok"
        /\ loc[w].snap.present)
         => LET monthly == plans[loc[w].snap.plan_id].monthly_credits IN
              IF monthly > 0
              THEN /\ loc[w].ncalls = 1
                   /\ loc[w].result
                   /\ ledger # <<>>
                   /\ ledger[Len(ledger)].amount = monthly
                   /\ ledger[Len(ledger)].reason = "recurring"
                   /\ ledger[Len(ledger)].sub = ev[w].id
              ELSE loc[w].ncalls = 0

C19_Witness ==
  /\ pc["w1"] = "respond"
  /\ ev["w1"].type = "invoice.payment_succeeded"
  /\ loc["w1"].snap.plan_id = PriceB
  /\ loc["w1"].ncalls = 1
  /\ ledger # <<>>
  /\ ledger[Len(ledger)].amount = 2
  /\ ledger[Len(ledger)].reason = "recurring"

\* C20: when a request has been served, the subscription write and the ledger
\* entry of its handler are both there or both missing: a subscription this
\* request created as active on a plan with a positive initial grant has its
\* initial ledger entry, and an upgrade allocation this request made goes with
\* the subscription stored on the new plan
C20_CommitTogether ==
  \A w \in Workers :
    pc[w] = "respond" =>
      /\ (/\ ev[w].type = "customer.subscription.created"
          /\ loc[w].created
          /\ subs[ev[w].id].status = "active"
          /\ plans[ev[w].price].initial_credits > 0)
           => Entries("initial", ev[w].id) # {}
      /\ (/\ ev[w].type = "customer.subscription.updated"
          /\ loc[w].reason = "upgrade"
          /\ loc[w].result)
           => subs[ev[w].id].plan_id = ev[w].price

\* C21: when a request has been served during which an allocation was
\* rejected or its ledger write failed, the response is not success
C21_LedgerFailurePropagates ==
  \A w \in Workers :
    (pc[w] = "respond" /\ loc[w].ncalls > 0 /\ ~loc[w].result)
      => loc[w].resp # "success"

\* C22: when the provider failed while the plan of an event was hydrated,
\* the response is an error and no plan row of that price is stored
C22_HydrationFailureIsError ==
  \A w \in Workers :
    (pc[w] = "respond" /\ loc[w].exc = "StripeError")
      => /\ loc[w].resp \notin {"success", "ignored"}
         /\ ~plans[ev[w].price].present

\* ------------------------------------------------ plans of arbitrary names
\* the words plan names are made of: the four keywords in several cases, a
\* word that holds a keyword inside, and words that hold none
Words ==
  { <<"F","r","e","e">>, <<"B","a","s","i","c">>,
    <<"P","R","E","M","I","U","M">>,
    <<"E","n","t","e","r","p","r","i","s","e">>,
    <<"P","l","a","n">>, <<"M","y">>, <<"U","n","f","r","e","e">>,
    <<"P","r","o">> }

\* the words of ws with single spaces between them
RECURSIVE join(_)
join(ws) ==
  IF ws = <<>> THEN <<>>
  ELSE IF Len(ws) = 1 THEN ws[1]
  ELSE ws[1] \o <<" ">> \o join(Tail(ws))

\* the names of up to MaxWords words, the empty name among them
PlanNames == { join(ws) : ws \in UNION { [1..k -> Words] : k \in 0..MaxWords } }

\* the catalog holds the plan of price_A, hydrated earlier from a product of
\* any name
InitTier ==
  /\ customers = {KnownCustomer}
  /\ \E n \in PlanNames :
       plans = [p \in PriceIds |->
                  IF p = PriceA
                  THEN [present |-> TRUE, name |-> n, initial_credits |-> 1,
                        monthly_credits |-> 1]
                  ELSE NoPlan]
  /\ subs = [s \in SubIds |-> NoSub]
  /\ hasProfile = TRUE
  /\ products = [p \in PriceIds |-> ProviderProduct(p)]
  /\ balance = 0
  /\ tier = "free"
  /\ ledger = <<>>
  /\ lock = NoId
  /\ pc = [w \in Workers |-> "idle"]
  /\ ev = [w \in Workers |-> NoEvent]
  /\ loc = [w \in Workers |-> NoLoc]
  /\ delivered = 0

TierEvents ==
  { SubscriptionEvent("customer.subscription.created", "sub_1", KnownCustomer,
                      st, PriceA, 1, FALSE) : st \in {"active", "incomplete"} }

NextTier ==
  \E w \in Sequential :
    \/ \E e \in TierEvents : post(w, e)
    \/ handle_subscription_created(w)
    \/ plan_get(w)
    \/ allocate_subscription_credits(w)
    \/ respond(w)

\* subscriptions created on a stored plan of any name
SpecTier == InitTier /\ [][NextTier]_vars

\* C23: the tier the created handler derives from the name of the plan is,
\* for every name, the empty one included, one of the four tiers
C23_TierTotal ==
  /\ tier \in {"free", "basic", "premium", "enterprise"}
  /\ \A w \in Workers :
       (pc[w] = "respond" /\ ev[w].type = "customer.subscription.created")
         => tier = map_plan_to_subscription_tier(plans[ev[w].price].name)

C23_Witness ==
  /\ pc["w1"] = "respond"
  /\ ev["w1"].type = "customer.subscription.created"
  /\ plans[PriceA].name = <<>>
  /\ tier = "basic"

\* str.split()[0]: the first run of characters that are not spaces
RECURSIVE first_word(_)
first_word(s) ==
  IF s = <<>> THEN <<>>
  ELSE IF s[1] = " " THEN first_word(Tail(s))
  ELSE IF Len(s) = 1 \/ s[2] = " " THEN <<s[1]>>
  ELSE <<s[1]>> \o first_word(Tail(s))

\* k is a prefix of s
is_prefix(k, s) == Len(k) <= Len(s) /\ SubSeq(s, 1, Len(k)) = k

\* the tier of a name as C24 states it: the exact match, else the keyword
\* that is a prefix of the first word whatever its case, else 'basic'
FirstWordPrefixTier(name) ==
  IF \E i \in 1..4 : TierKeys[i] = name
  THEN TierValues[CHOOSE i \in 1..4 : TierKeys[i] = name]
  ELSE IF \E i \in 1..4 : is_prefix(TierFirstWords[i], lower(first_word(name)))
  THEN TierValues[CHOOSE i \in 1..4 :
                    is_prefix(TierFirstWords[i], lower(first_word(name)))]
  ELSE "basic"

\* C24: the tier derived from a plan name is the exact match, else the tier
\* whose keyword is a prefix of the first word of the name, else 'basic'; a
\* keyword anywhere else in the name gives 'basic'
C24_FirstWordPrefix ==
  \A w \in Workers :
    (pc[w] = "respond" /\ ev[w].type = "customer.subscription.created")
      => tier = FirstWordPrefixTier(plans[ev[w].price].name)

\* C25: when a request has changed the plan of an active subscription, the
\* tier of the account is the one mapped from the name of the new plan,
\* whatever the sign of the credit difference and whether or not the upgrade
\* allocation succeeded
C25_TierFollowsNewPlan ==
  \A w \in Workers :
    PlanChanged(w)
      => tier = map_plan_to_subscription_tier(plans[ev[w].price].name)

\* ----------------------------------- one plan change, delivered in any order
\* sub_1 is stored active on price_A with its initial credits granted; no
\* delivery of the plan change has arrived yet
InitReorder ==
  /\ customers = {KnownCustomer}
  /\ plans = [p \in PriceIds |-> IF p = PriceA THEN HydratedPlan(p) ELSE NoPlan]
  /\ subs = [s \in SubIds |->
               SubscriptionRow(NoSub,
                 SubscriptionEvent("customer.subscription.created", s,
                                   KnownCustomer, "active", PriceA, 1, FALSE))]
  /\ hasProfile = TRUE
  /\ products = [p \in PriceIds |-> ProviderProduct(p)]
  /\ balance = 1
  /\ tier = "basic"
  /\ ledger = << [amount |-> 1, balance_after |-> 1, reason |-> "initial",
                  sub |-> "sub_1"] >>
  /\ lock = NoId
  /\ pc = [w \in Workers |-> "idle"]
  /\ ev = [w \in Workers |-> NoEvent]
  /\ loc = [w \in Workers |-> NoLoc]
  /\ delivered = 0

\* the provider's updates of sub_1: the older one on price_A in period 1, the
\* newer ones on price_B in period 2, without and with the cancel flag; each
\* may arrive late and repeatedly
ReorderEvents ==
  { SubscriptionEvent("customer.subscription.updated", "sub_1", KnownCustomer,
                      "active", PriceA, 1, FALSE),
    SubscriptionEvent("customer.subscription.updated", "sub_1", KnownCustomer,
                      "active", PriceB, 2, FALSE),
    SubscriptionEvent("customer.subscription.updated", "sub_1", KnownCustomer,
                      "active", PriceB, 2, TRUE) }

NextReorder ==
  \E w \in Sequential :
    \/ \E e \in ReorderEvents : post(w, e)
    \/ handle_subscription_updated(w)
    \/ plan_get(w)
    \/ plan_create(w)
    \/ allocate_subscription_credits(w)
    \/ respond(w)

SpecReorder == InitReorder /\ [][NextReorder]_vars

\* C26: however the updates of the one change from price_A to price_B
\* are ordered and repeated, the ledger holds at most one upgrade entry for
\* the subscription, and once the upgrade has been applied and no request is
\* being served the stored plan is price_B
C26_OneUpgradePerChange ==
  /\ Cardinality(Entries("upgrade", "sub_1")) <= 1
  /\ ((\A w \in Workers : pc[w] = "idle") /\ Entries("upgrade", "sub_1") # {})
       => subs["sub_1"].plan_id = PriceB

\* C27: whenever the stored status of a subscription changes, the new status
\* is the one reported by the event of that subscription being served; in
\* particular no status is written that the provider did not report
C27_StatusReported ==
  [][\A s \in SubIds :
       subs'[s].status # subs[s].status
         => \E w \in Workers :
              ev[w].id = s /\ ev[w].status = subs'[s].status]_vars

\* ------------------------------------------------- payment failures, dunning
\* the events after a failed payment of sub_1: the failed invoice, and the
\* updates that report past_due or unpaid, on the stored price or another
DunningEvents ==
  { e \in InvoiceEvents : e.type = "invoice.payment_failed" }
    \cup { SubscriptionEvent("customer.subscription.updated", "sub_1",
                             KnownCustomer, st, p, 1, FALSE) :
             st \in {"past_due", "unpaid"}, p \in {PriceA, PriceB} }

NextDunning ==
  \E w \in Sequential :
    \/ \E e \in DunningEvents : post(w, e)
    \/ handle_subscription_updated(w)
    \/ handle_invoice_payment_failed(w)
    \/ plan_get(w)
    \/ plan_create(w)
    \/ allocate_subscription_credits(w)
    \/ respond(w)

\* sub_1, stored active on price_A, runs into payment failures
SpecDunning == InitReorder /\ [][NextDunning]_vars

\* C28: while an invoice.payment_failed event or an update reporting
\* past_due or unpaid is served, the balance and the ledger stay as they
\* are, and invoice.payment_failed leaves plan and period of every
\* subscription as they are
C28_DunningNoLedger ==
  [][\A w \in Workers :
       (\/ ev[w].type = "invoice.payment_failed"
        \/ /\ ev[w].type = "customer.subscription.updated"
           /\ ev[w].status \in {"past_due", "unpaid"})
         => /\ balance' = balance
            /\ ledger' = ledger
            /\ ev[w].type = "invoice.payment_failed"
                 => \A s \in SubIds :
                      /\ subs'[s].plan_id = subs[s].plan_id
                      /\ subs'[s].current_period_start
                           = subs[s].current_period_start
                      /\ subs'[s].current_period_end
                           = subs[s].current_period_end]_vars

\* C29: no step of the webhook endpoint lowers the balance of the account:
\* downgrades, cancellations, payment failures and status changes take back
\* nothing
C29_BalanceNeverDecreases == [][balance' >= balance]_vars

C29_Witness ==
  /\ pc["w1"] = "respond"
  /\ ev["w1"].type = "customer.subscription.updated"
  /\ loc["w1"].snap.plan_id = PriceB
  /\ ev["w1"].price = PriceA
  /\ subs["sub_1"].plan_id = PriceA
  /\ loc["w1"].ncalls = 0
  /\ balance = 3

\* ------------------------------------------- a plan without initial credits
\* the catalog holds the plan of price_C, hydrated earlier from a product
\* whose metadata has no credits: both grants are 0
InitZeroGrant ==
  /\ customers = {KnownCustomer}
  /\ plans = [p \in PriceIds |->
                IF p = PriceC
                THEN [present |-> TRUE, name |-> <<"S","t","a","r","t","e","r">>,
                      initial_credits |-> 0, monthly_credits |-> 0]
                ELSE NoPlan]
  /\ subs = [s \in SubIds |-> NoSub]
  /\ hasProfile = TRUE
  /\ products = [p \in PriceIds |-> ProviderProduct(p)]
  /\ balance = 0
  /\ tier = "free"
  /\ ledger = <<>>
  /\ lock = NoId
  /\ pc = [w \in Workers |-> "idle"]
  /\ ev = [w \in Workers |-> NoEvent]
  /\ loc = [w \in Workers |-> NoLoc]
  /\ delivered = 0

\* created and checkout events for subscriptions on price_C
ZeroGrantEvents ==
  { e \in SubscriptionEvents("customer.subscription.created")
            \cup SubscriptionEvents("checkout.session.completed") :
      e.price = PriceC /\ ~e.cancel }

NextZeroGrant ==
  \E w \in Sequential :
    \/ \E e \in ZeroGrantEvents : post(w, e)
    \/ handle_subscription_created(w)
    \/ handle_checkout_session_completed(w)
    \/ plan_get(w)
    \/ allocate_subscription_credits(w)
    \/ respond(w)

SpecZeroGrant == InitZeroGrant /\ [][NextZeroGrant]_vars

\* C30: a created or checkout request for a subscription on a plan whose
\* initial credits are 0 calls no allocation, and the ledger never holds an
\* entry of amount 0
C30_ZeroGrantNoAllocation ==
  /\ \A w \in Workers :
       (/\ pc[w] = "respond"
        /\ ev[w].type \in {"customer.subscription.created",
                           "checkout.session.completed"}
        /\ plans[ev[w].price].initial_credits = 0)
         => loc[w].ncalls = 0
  /\ \A i \in 1..Len(ledger) : ledger[i].amount # 0

\* ------------------------------------------- the invoice after a plan change
\* the change of sub_1 from price_A to price_B or price_C, and the invoices
\* of sub_1 that are paid
RenewalEvents ==
  { SubscriptionEvent("customer.subscription.updated", "sub_1", KnownCustomer,
                      "active", p, 2, FALSE) : p \in {PriceB, PriceC} }
    \cup { e \in InvoiceEvents :
             e.type = "invoice.payment_succeeded" /\ e.id = "sub_1" }

NextRenewal ==
  \E w \in Sequential :
    \/ \E e \in RenewalEvents : post(w, e)
    \/ handle_subscription_updated(w)
    \/ handle_invoice_payment_succeeded(w)
    \/ plan_get(w)
    \/ plan_create(w)
    \/ allocate_subscription_credits(w)
    \/ respond(w)

\* sub_1, stored active on price_A, changes its plan and is invoiced
SpecRenewal == InitReorder /\ [][NextRenewal]_vars

\* the one price sub_1 was changed to: the only plan besides price_A that
\* the served updates have added to the catalog
ChangedTo(p) ==
  /\ p # PriceA
  /\ plans[p].present
  /\ \A q \in PriceIds \ {PriceA, p} : ~plans[q].present

\* C31: when a paid invoice of sub_1 has been served after its plan was
\* changed from price_A to p, one allocation of the recurring grant the
\* provider states for p was made if that grant is positive, and none if it
\* is zero
C31_RenewalUsesNewPlan ==
  \A w \in Workers : \A p \in PriceIds :
    (/\ pc[w] = "respond"
     /\ ev[w].type = "invoice.payment_succeeded"
     /\ ChangedTo(p))
      => LET grant == get_monthly_credits(ProviderProduct(p))
         IN IF grant > 0
            THEN /\ loc[w].ncalls = 1
                 /\ ledger[Len(ledger)].reason = "recurring"
                 /\ ledger[Len(ledger)].amount = grant
            ELSE loc[w].ncalls = 0

C31_Witness ==
  /\ pc["w1"] = "respond"
  /\ ev["w1"].type = "invoice.payment_succeeded"
  /\ subs["sub_1"].plan_id = PriceB
  /\ ledger[Len(ledger)].reason = "recurring"
  /\ ledger[Len(ledger)].amount = 2
  /\ Entries("upgrade", "sub_1") # {}

\* --------------------------------- updates of a subscription not stored yet
\* customer.subscription.updated events of sub_1, which no created event
\* has announced
UpdateAsCreateEvents ==
  { e \in SubscriptionEvents("customer.subscription.updated") : ~e.cancel }

NextUpdateAsCreate ==
  \E w \in Sequential :
    \/ \E e \in UpdateAsCreateEvents : post(w, e)
    \/ handle_subscription_updated(w)
    \/ handle_subscription_created(w)
    \/ plan_get(w)
    \/ plan_create(w)
    \/ allocate_subscription_credits(w)
    \/ respond(w)

SpecUpdateAsCreate == Init /\ [][NextUpdateAsCreate]_vars

\* the update worker w has finished serving reports what the stored row
\* already held when it was read: a replay
Replay(w) ==
  /\ pc[w] = "respond"
  /\ ev[w].type = "customer.subscription.updated"
  /\ loc[w].snap.present
  /\ loc[w].snap.status = ev[w].status
  /\ loc[w].snap.plan_id = ev[w].price
  /\ loc[w].snap.current_period_end = ev[w].period_end

\* C32: when an update of a subscription that was not stored has been
\* served, the subscription is stored with the reported status and plan, and
\* if the status is active the initial credits of the plan were allocated
\* once, by this request; a replay of the update allocates nothing
C32_UpdateTreatedAsCreate ==
  \A w \in Workers :
    /\ (/\ pc[w] = "respond"
        /\ ev[w].type = "customer.subscription.updated"
        /\ loc[w].created)
         => /\ subs[ev[w].id].present
            /\ subs[ev[w].id].status = ev[w].status
            /\ subs[ev[w].id].plan_id = ev[w].price
            /\ ev[w].status = "active"
                 => /\ loc[w].ncalls = 1
                    /\ Cardinality(Entries("initial", ev[w].id)) = 1
                    /\ ledger[Len(ledger)].reason = "initial"
                    /\ ledger[Len(ledger)].amount
                         = get_initial_credits(ProviderProduct(ev[w].price))
    /\ Replay(w)
         => /\ loc[w].ncalls = 0
            /\ Cardinality(Entries("initial", ev[w].id)) <= 1

C32_Witness ==
  /\ Replay("w1")
  /\ ev["w1"].status = "active"
  /\ ev["w1"].price = PriceB
  /\ delivered = 2
  /\ Len(ledger) = 1
  /\ ledger[1].reason = "initial"
  /\ ledger[1].amount = 3

\* C33: read in insertion order, the ledger is a chain: the snapshot of the
\* first entry is the opening balance 0 plus its amount, and the snapshot of
\* every later entry is the snapshot of the entry before it plus its own
\* amount, also when allocations run concurrently
C33_LedgerChained ==
  \A i \in 1..Len(ledger) :
    ledger[i].balance_after
      = (IF i = 1 THEN 0 ELSE ledger[i - 1].balance_after) + ledger[i].amount

\* ------------------------------------------- allocation without a profile
\* the user called for may or may not have a UserProfile
InitProfiles ==
  /\ customers = {KnownCustomer}
  /\ plans = [p \in PriceIds |-> NoPlan]
  /\ subs = [s \in SubIds |-> NoSub]
  /\ hasProfile \in BOOLEAN
  /\ products = [p \in PriceIds |-> ProviderProduct(p)]
  /\ balance = 0
  /\ tier = "free"
  /\ ledger = <<>>
  /\ lock = NoId
  /\ pc = [w \in Workers |-> "idle"]
  /\ ev = [w \in Workers |-> NoEvent]
  /\ loc = [w \in Workers |-> NoLoc]
  /\ delivered = 0

\* concurrent callers of the allocation function, for either kind of user
SpecProfiles == InitProfiles /\ [][NextLedger]_vars

\* C34: for a user without a profile every allocation that has returned
\* returned False, no CreditTransaction has been recorded and the balance
\* is what it was before the calls
C34_NoProfileFails ==
  ~hasProfile =>
    /\ \A w \in Workers : pc[w] = "returned" => ~loc[w].result
    /\ ledger = <<>>
    /\ balance = 0

\* an allocation for a user without a profile has returned
C34_Witness ==
  /\ ~hasProfile
  /\ \E w \in Workers : pc[w] = "returned" /\ ev[w].type = "allocate"

\* --------------------------------------------- events over a stored catalog
\* verified events of the six subscription event types
CatalogEvents ==
  { e \in SubscriptionEvents("customer.subscription.created")
            \cup SubscriptionEvents("customer.subscription.updated")
            \cup SubscriptionEvents("checkout.session.completed")
            \cup DeletedEvents \cup InvoiceEvents :
      ~e.cancel /\ e.status \in {"none", "active", "canceled"} }

\* int(metadata.get(key, 0)) without a try (views.py:1041-1042): the value
\* raises ValueError when int() refuses it
int_raises(value) == value.present /\ ~py_int(value.chars).ok

\* views.py:1035-1045: the StripePlan row ProductManagementView.post stores
\* for a recurring price it has created, named "<product> - <nickname>"
ManagedPlan(name, nickname, initial, monthly) ==
  [present |-> TRUE,
   name |-> name \o <<" ", "-", " ">> \o nickname,
   initial_credits |-> py_int(IF initial.present THEN initial.chars
                              ELSE <<"0">>).val,
   monthly_credits |-> py_int(IF monthly.present THEN monthly.chars
                              ELSE <<"0">>).val]

\* views.py:931-1028, ProductManagementView.post with one recurring pricing
\* plan, up to the provider calls: stripe_client.products.create and
\* prices.create make the product and a price with an id p the provider has
\* not given out before, and products.modify sets the default price. From
\* here on the provider holds the product and sends events for the price
ProductManagementView_post_create(w, p, name, initial, monthly) ==
  /\ pc[w] = "idle"
  /\ delivered < MaxEvents
  /\ delivered' = delivered + 1
  /\ products[p] = NoProduct
  /\ products' = [products EXCEPT ![p] =
                    [name |-> name, initial_credits |-> initial,
                     monthly_credits |-> monthly]]
  /\ ev' = [ev EXCEPT ![w] = [NoEvent EXCEPT !.type = "products.post",
                                             !.price = p]]
  /\ loc' = [loc EXCEPT ![w] = [NoLoc EXCEPT !.product = products'[p]]]
  /\ pc' = [pc EXCEPT ![w] = "post_store"]
  /\ UNCHANGED <<customers, plans, subs, hasProfile, balance, tier, ledger,
                 lock>>

\* views.py:1034-1060: StripePlan.objects.create for the price. int() of a
\* credit value that is no numeral raises ValueError while the arguments are
\* evaluated; the unique plan_id raises IntegrityError when an event for the
\* price has stored its row since the provider calls. Either is caught by
\* `except Exception`: the view answers 500, no row is stored or changed and
\* the provider keeps the product and the price. Otherwise the row is
\* stored and the view answers 201
ProductManagementView_post_store(w, nickname) ==
  /\ pc[w] = "post_store"
  /\ LET product == loc[w].product
         price == ev[w].price
     IN  IF int_raises(product.initial_credits)
              \/ int_raises(product.monthly_credits)
         THEN /\ loc' = [loc EXCEPT ![w] =
                           [@ EXCEPT !.exc = "ValueError", !.resp = "500"]]
              /\ UNCHANGED plans
         ELSE IF plans[price].present
         THEN /\ loc' = [loc EXCEPT ![w] =
                           [@ EXCEPT !.exc = "IntegrityError", !.resp = "500"]]
              /\ UNCHANGED plans
         ELSE /\ plans' = [plans EXCEPT ![price] =
                             ManagedPlan(product.name, nickname,
                                         product.initial_credits,
                                         product.monthly_credits)]
              /\ loc' = [loc EXCEPT ![w] = Finished(@, "201")]
  /\ pc' = [pc EXCEPT ![w] = "respond"]
  /\ UNCHANGED <<customers, subs, hasProfile, products, balance, tier, ledger,
                 lock, ev, delivered>>

\* the steps of ProductManagementView.post
ProductManagementView_post(w, p, name, nickname, initial, monthly) ==
  \/ ProductManagementView_post_create(w, p, name, initial, monthly)
  \/ ProductManagementView_post_store(w, nickname)

\* the initial_credits of the management requests: a numeral, and a text
\* int() refuses; the requests carry no monthly_credits
ManagedCredits == {MetaNum(2), MetaText}

\* the catalog holds the plan of price_C, stored with grants that differ from
\* the provider's current product metadata; the provider has price_A and
\* price_C, while price_B is an id it has not given out yet
InitCatalog ==
  /\ customers = {KnownCustomer}
  /\ plans = [p \in PriceIds |->
                IF p = PriceC
                THEN [present |-> TRUE, name |-> <<"S","t","a","r","t","e","r">>,
                      initial_credits |-> 0, monthly_credits |-> 0]
                ELSE NoPlan]
  /\ subs = [s \in SubIds |-> NoSub]
  /\ hasProfile = TRUE
  /\ products = [p \in PriceIds |->
                   IF p = PriceB THEN NoProduct ELSE ProviderProduct(p)]
  /\ balance = 0
  /\ tier = "free"
  /\ ledger = <<>>
  /\ lock = NoId
  /\ pc = [w \in Workers |-> "idle"]
  /\ ev = [w \in Workers |-> NoEvent]
  /\ loc = [w \in Workers |-> NoLoc]
  /\ delivered = 0

\* the webhook requests are served by one worker and the management requests
\* by another, so the steps of the two interleave; the provider sends events
\* only for prices it holds
NextCatalog ==
  \/ \E w \in Sequential :
       \/ \E e \in CatalogEvents :
            /\ e.price \in PriceIds => products[e.price] # NoProduct
            /\ post(w, e)
       \/ handle_event(w)
       \/ respond(w)
  \/ \E w \in Workers \ Sequential :
       \/ \E p \in PriceIds, initial \in ManagedCredits :
            ProductManagementView_post(w, p, <<"P","r","o">>,
                                       <<"M","o","n","t","h","l","y">>,
                                       initial, MetaMissing)
       \/ respond(w)

\* the webhook endpoint and the product management endpoint, served
\* concurrently, over a catalog that already holds price_C
SpecCatalog == InitCatalog /\ [][NextCatalog]_vars

\* C35: no step of a subscription event changes a stored Plan row; the only
\* change to the catalog is a new row for a price id that had none
C35_PlansNeverModified ==
  [][\A p \in PriceIds :
       plans'[p] # plans[p] => ~plans[p].present /\ plans'[p].present]_vars

\* a subscription has been stored on the stale price_C, and an event for the
\* price a management request has just created at the provider has added
\* its plan to the catalog while the request has yet to store its own row
C35_Witness ==
  /\ \E s \in SubIds : subs[s].present /\ subs[s].plan_id = PriceC
  /\ plans[PriceC].initial_credits # HydratedPlan(PriceC).initial_credits
  /\ \E w \in Workers :
       /\ pc[w] = "post_store"
       /\ plans[ev[w].price] = PlanFromProduct(loc[w].product)

\* -------------------------------------- concurrent allocations, no failures
NextInterleaved ==
  \E w \in Workers :
    \/ \E c \in Calls : Call(w, c)
    \/ allocate_subscription_credits(w)
    \/ Return(w)

\* concurrent callers of the allocation function for a user with a profile,
\* where every database statement succeeds
SpecInterleaved == Init /\ [][NextInterleaved]_vars

\* C36: a call that has added its amount to the balance returns success.
\* Here the user has a profile and no statement fails, so every call that
\* has returned and whose amount was not refused (the balance it read plus
\* the amount is not below zero) has committed its addition, and must have
\* returned True
C36_SuccessIffCommitted ==
  \A w \in Workers :
    ( /\ pc[w] = "returned"
      /\ ev[w].type = "allocate"
      /\ loc[w].old_balance + loc[w].amount >= 0 ) => loc[w].result

\* ---------------------------------------- plans hydrated from any metadata
\* the characters of the metadata values: digits, the sign, the underscore,
\* the space, the no-break space, the separator U+001C and a letter
MetaChars == {"0", "2", "-", "_", " ", " ", "", "x"}

\* the metadata values of up to MaxMetaLen characters, and the absent key
MetaValues ==
  {MetaMissing}
    \cup { MetaStr(c) : c \in UNION { [1..k -> MetaChars] : k \in 0..MaxMetaLen } }

\* the products the provider may hold for price_A: any value under one of
\* the two keys, the other key as the catalog has it
Products ==
  { [ProviderProduct(PriceA) EXCEPT !.initial_credits = v] : v \in MetaValues }
    \cup { [ProviderProduct(PriceA) EXCEPT !.monthly_credits = v] :
              v \in MetaValues }

\* nothing is stored yet; the provider holds any of the products for price_A
InitMetadata ==
  /\ customers = {KnownCustomer}
  /\ plans = [p \in PriceIds |-> NoPlan]
  /\ subs = [s \in SubIds |-> NoSub]
  /\ hasProfile = TRUE
  /\ \E product \in Products :
       products = [p \in PriceIds |->
                     IF p = PriceA THEN product ELSE ProviderProduct(p)]
  /\ balance = 0
  /\ tier = "free"
  /\ ledger = <<>>
  /\ lock = NoId
  /\ pc = [w \in Workers |-> "idle"]
  /\ ev = [w \in Workers |-> NoEvent]
  /\ loc = [w \in Workers |-> NoLoc]
  /\ delivered = 0

MetadataEvents ==
  { SubscriptionEvent("customer.subscription.created", "sub_1", KnownCustomer,
                      st, PriceA, 1, FALSE) : st \in {"active", "incomplete"} }

NextMetadata ==
  \E w \in Sequential :
    \/ \E e \in MetadataEvents : post(w, e)
    \/ handle_subscription_created(w)
    \/ plan_get(w)
    \/ plan_create(w)
    \/ allocate_subscription_credits(w)
    \/ respond(w)

\* subscriptions created on a price whose product carries any metadata
SpecMetadata == InitMetadata /\ [][NextMetadata]_vars

\* the blanks that may surround a numeral: the space and the no-break space,
\* the tab, the line breaks (line feed, vertical tab, form feed, carriage
\* return, next line). Control characters such as the separators
\* U+001C..U+001F are no blanks
Blanks ==
  {" ", " ", "\t", "\n", "", "\f", "\r", ""}

\* s is a numeral: blanks, then an optional sign, then decimal digits
\* (leading zeros allowed, single underscores allowed as separators between
\* two digits), then blanks. i and j are the ends of the signed digits
NumeralAt(s, i, j) ==
  LET first == IF s[i] \in {"+", "-"} THEN i + 1 ELSE i
  IN  /\ \A k \in 1..Len(s) : (k < i \/ k > j) => s[k] \in Blanks
      /\ first <= j
      /\ \A k \in first..j :
           \/ IsDigit(s[k])
           \/ /\ s[k] = "_"
              /\ first < k /\ k < j
              /\ IsDigit(s[k - 1]) /\ IsDigit(s[k + 1])

IsNumeral(s) == \E i \in 1..Len(s) : \E j \in i..Len(s) : NumeralAt(s, i, j)

\* the integer a numeral writes: each digit weighs ten to the number of
\* digits after it
NumeralValue(s) ==
  LET ij == CHOOSE ij \in (1..Len(s)) \X (1..Len(s)) :
              ij[1] <= ij[2] /\ NumeralAt(s, ij[1], ij[2])
      i == ij[1]
      j == ij[2]
      after(k) == Cardinality({ m \in (k + 1)..j : IsDigit(s[m]) })
      RECURSIVE total(_)
      total(k) ==
        IF k > j THEN 0
        ELSE (IF IsDigit(s[k]) THEN DigitValue(s[k]) * 10^after(k) ELSE 0)
               + total(k + 1)
  IN  IF s[i] = "-" THEN 0 - total(i) ELSE total(i)

\* the grant the stored plan must carry for a metadata value: 0 for an absent
\* key and for a value that is no numeral, else the integer it writes
GrantAsStated(value, grant) ==
  IF value.present /\ IsNumeral(value.chars)
  THEN grant = NumeralValue(value.chars)
  ELSE grant = 0

\* C37: a request that has hydrated a plan from a provider product has not
\* raised in doing so, and the plan it stored carries, for initial_credits
\* and for monthly_credits, 0 when the key is missing or its value is not
\* numeric, and the integer written when the value is numeric
C37_GrantsDefaultToZero ==
  \A w \in Workers :
    (pc[w] = "respond" /\ loc[w].product # NoProduct) =>
      /\ loc[w].exc = "none"
      /\ GrantAsStated(loc[w].product.initial_credits,
                       plans[ev[w].price].initial_credits)
      /\ GrantAsStated(loc[w].product.monthly_credits,
                       plans[ev[w].price].monthly_credits)

\* a plan has been hydrated from a product whose initial_credits is not
\* numeric, and stored with the grant 0
C37_Witness ==
  \E w \in Workers :
    /\ pc[w] = "respond"
    /\ loc[w].product.initial_credits = MetaStr(<<"2", "x">>)
    /\ plans[ev[w].price].initial_credits = 0

====
